---- MODULE Spec2Model ----
(***************************************************************************)
(* Model of check_gap_stock.py: the availability-extraction pipeline       *)
(* (_json_blocks_from_ld, _json_blocks_from_inline_scripts, _flatten,      *)
(* _find_size_records, _interpret_availability, _fallback_text,            *)
(* check_once).                                                            *)
(*                                                                         *)
(* Python str values are TLA+ strings; a character is a string of length   *)
(* one.  A Python dict is a sequence of <<key, value>> pairs with distinct *)
(* keys, in insertion order.  A JSON value is a tagged record.             *)
(***************************************************************************)
EXTENDS Integers, Sequences, FiniteSets, TLC

VARIABLES
    pc,           \* position in check_once / in the function under study
    html,         \* what fetch(url) returned: "" or a parsed page (the soup)
    target_size,  \* the --size argument
    has_regex,    \* _HAS_REGEX: whether the `regex` package was importable
    blocks,       \* check_once: blocks
    flat,         \* _flatten's result for blocks[1]
    records,      \* check_once: records
    res,          \* check_once: res  (result of _interpret_availability)
    res2,         \* check_once: res2 (result of _fallback_text)
    result        \* what check_once returned, or the exception it raised

vars == <<pc, html, target_size, has_regex, blocks, flat, records, res, res2, result>>

----------------------------------------------------------------------------
(* Bounds of the model.                                                    *)

MaxKeys == 2         \* keys of the top-level mapping of a RawBlock given to _flatten
MaxBlocks == 2       \* blocks given to _find_size_records
MaxRecords == 2      \* candidate records given to _interpret_availability
MaxScripts == 3      \* script tags of a page given to _json_blocks_from_ld
MaxFrags == 3        \* fragments a rendered page text is made of
MaxPageScripts == 2  \* script tags of a page given to check_once

----------------------------------------------------------------------------
(* Python str operations.                                                  *)

Char(s, i) == SubSeq(s, i, i)

CharsOf(s) == {Char(s, i) : i \in 1..Len(s)}

UpperLetters == "ABCDEFGHIJKLMNOPQRSTUVWXYZ"
LowerLetters == "abcdefghijklmnopqrstuvwxyz"
Digits == "0123456789"

\* U+00B2 SUPERSCRIPT TWO is written "^" in this model's strings: a character
\* for which str.isdigit() is True and that int() rejects.
SuperscriptTwo == "^"

UpperChars == CharsOf(UpperLetters)
LowerChars == CharsOf(LowerLetters)
DigitChars == CharsOf(Digits)

\* the characters \w matches
WordChars == UpperChars \cup LowerChars \cup DigitChars \cup {"_"}

WhiteSpace == {" ", "\n", "\t"}

LowerOf == [c \in UpperChars |-> Char(LowerLetters, CHOOSE i \in 1..26 : Char(UpperLetters, i) = c)]
UpperOf == [c \in LowerChars |-> Char(UpperLetters, CHOOSE i \in 1..26 : Char(LowerLetters, i) = c)]

\* s.lower(), character by character (the string is split in halves)
RECURSIVE lower(_)
lower(s) ==
    IF Len(s) = 0 THEN ""
    ELSE IF Len(s) = 1 THEN (IF s \in UpperChars THEN LowerOf[s] ELSE s)
    ELSE lower(SubSeq(s, 1, Len(s) \div 2)) \o lower(SubSeq(s, Len(s) \div 2 + 1, Len(s)))

RECURSIVE lstrip(_)
lstrip(s) == IF s # "" /\ Head(s) \in WhiteSpace THEN lstrip(Tail(s)) ELSE s

RECURSIVE rstrip(_)
rstrip(s) ==
    IF s # "" /\ Char(s, Len(s)) \in WhiteSpace THEN rstrip(SubSeq(s, 1, Len(s) - 1)) ELSE s

strip(s) == rstrip(lstrip(s))

\* s[i : i + len(p)] == p
MatchAt(s, i, p) == i >= 1 /\ i + Len(p) - 1 <= Len(s) /\ SubSeq(s, i, i + Len(p) - 1) = p

\* p in s
Contains(s, p) == \E i \in 1..(Len(s) + 1) : MatchAt(s, i, p)

startswith(s, p) == MatchAt(s, 1, p)

\* k.rsplit(".", 1)[0] for a k that contains "."
RsplitDot(k) ==
    LET last == CHOOSE i \in 1..Len(k) :
                    Char(k, i) = "." /\ \A j \in (i + 1)..Len(k) : Char(k, j) # "."
    IN SubSeq(k, 1, last - 1)

\* s.replace(a, b) for single characters a, b
RECURSIVE replace(_, _, _)
replace(s, a, b) ==
    IF Len(s) = 0 THEN ""
    ELSE IF Len(s) = 1 THEN (IF s = a THEN b ELSE s)
    ELSE replace(SubSeq(s, 1, Len(s) \div 2), a, b)
             \o replace(SubSeq(s, Len(s) \div 2 + 1, Len(s)), a, b)

\* s.isdigit(): non-empty, every character a digit character
IsDigitChars == DigitChars \cup {SuperscriptTwo}
isdigit(s) == s # "" /\ \A i \in 1..Len(s) : Char(s, i) \in IsDigitChars

\* whether int(s) raises ValueError, for an s that passed isdigit()
IntRaises(s) == \E i \in 1..Len(s) : Char(s, i) \notin DigitChars

DigitOf == [c \in DigitChars |-> (CHOOSE i \in 1..10 : Char(Digits, i) = c) - 1]
DigitVal(c) == DigitOf[c]

\* int(s) for a string of decimal digits
RECURSIVE int(_)
int(s) == IF s = "" THEN 0 ELSE 10 * int(SubSeq(s, 1, Len(s) - 1)) + DigitVal(Char(s, Len(s)))

\* str(n) for an int n
RECURSIVE NatToStr(_)
NatToStr(n) == IF n < 10 THEN Char(Digits, n + 1) ELSE NatToStr(n \div 10) \o Char(Digits, (n % 10) + 1)

IntToStr(n) == IF n < 0 THEN "-" \o NatToStr(0 - n) ELSE NatToStr(n)

----------------------------------------------------------------------------
(* JSON values as json.loads builds them.                                  *)

Str(s) == [t |-> "str", s |-> s]
Num(n) == [t |-> "int", n |-> n]
Flt(w, d) == [t |-> "float", w |-> w, d |-> d]      \* the float w.d, one decimal
Bool(b) == [t |-> "bool", b |-> b]
Null == [t |-> "null"]
Dict(items) == [t |-> "dict", items |-> items]      \* items: <<key, value>> pairs
List(elems) == [t |-> "list", elems |-> elems]

\* isinstance(v, (str, int, float, bool))
IsScalar(v) == v.t \in {"str", "int", "float", "bool"}

\* str(v) of a scalar
str(v) ==
    CASE v.t = "str" -> v.s
      [] v.t = "int" -> IntToStr(v.n)
      [] v.t = "float" -> IntToStr(v.w) \o "." \o NatToStr(v.d)
      [] v.t = "bool" -> IF v.b THEN "True" ELSE "False"
      [] v.t = "null" -> "None"

\* Python's == on two leaf values: numbers (bool included) compare by value
NumTenths(v) ==
    CASE v.t = "int" -> 10 * v.n
      [] v.t = "float" -> 10 * v.w + v.d
      [] v.t = "bool" -> IF v.b THEN 10 ELSE 0

PyEq(a, b) ==
    CASE a.t = "str" -> b.t = "str" /\ a.s = b.s
      [] a.t = "null" -> b.t = "null"
      [] OTHER -> b.t \in {"int", "float", "bool"} /\ NumTenths(a) = NumTenths(b)

----------------------------------------------------------------------------
(* Python dict operations on sequences of <<key, value>> pairs.            *)

DictKeys(d) == {d[i][1] : i \in 1..Len(d)}

DictGet(d, k) == d[CHOOSE i \in 1..Len(d) : d[i][1] = k][2]

\* d[k] = v
DictSet(d, k, v) ==
    IF k \in DictKeys(d)
    THEN [i \in 1..Len(d) |-> IF d[i][1] = k THEN <<k, v>> ELSE d[i]]
    ELSE Append(d, <<k, v>>)

\* d.update(e)
RECURSIVE DictUpdate(_, _)
DictUpdate(d, e) ==
    IF e = <<>> THEN d ELSE DictUpdate(DictSet(d, e[1][1], e[1][2]), Tail(e))

\* d == e for two dicts of leaf values
DictEq(d, e) ==
    /\ DictKeys(d) = DictKeys(e)
    /\ \A i \in 1..Len(d) : PyEq(d[i][2], DictGet(e, d[i][1]))

----------------------------------------------------------------------------
(* _flatten                                                                *)

RECURSIVE _flatten(_, _)
RECURSIVE FlattenItems(_, _, _)
RECURSIVE FlattenElems(_, _, _, _)

\* the loop over d.items(): out.update(_flatten(v, key)) for each item
FlattenItems(items, prefix, out) ==
    IF items = <<>> THEN out
    ELSE LET k == items[1][1]
             v == items[1][2]
             key == IF prefix # "" THEN prefix \o "." \o k ELSE k
         IN FlattenItems(Tail(items), prefix, DictUpdate(out, _flatten(v, key)))

\* the loop over enumerate(d)
FlattenElems(elems, i, prefix, out) ==
    IF elems = <<>> THEN out
    ELSE LET key == prefix \o "[" \o IntToStr(i) \o "]"
         IN FlattenElems(Tail(elems), i + 1, prefix, DictUpdate(out, _flatten(elems[1], key)))

_flatten(d, prefix) ==
    CASE d.t = "dict" -> FlattenItems(d.items, prefix, <<>>)
      [] d.t = "list" -> FlattenElems(d.elems, 0, prefix, <<>>)
      [] OTHER -> <<<<prefix, d>>>>

----------------------------------------------------------------------------
(* _find_size_records                                                      *)

SizeRecordTokens == <<"size", "variant", "sku", "label", "name">>

\* any(tok in s for tok in toks)
AnyTokIn(toks, s) == \E i \in 1..Len(toks) : Contains(s, toks[i])

\* the test on a flattened key k that makes it start a candidate record
IsSizeKey(k) == AnyTokIn(SizeRecordTokens, lower(k))

\* k.rsplit(".", 1)[0] if "." in k else ""
ParentOf(k) == IF Contains(k, ".") THEN RsplitDot(k) ELSE ""

\* {kk: vv for kk, vv in flat.items() if parent and kk.startswith(parent)}
RecordUnder(fl, parent) ==
    SelectSeq(fl, LAMBDA kv : parent # "" /\ startswith(kv[1], parent))

\* record in recs
InRecs(recs, record) == \E i \in 1..Len(recs) : DictEq(recs[i], record)

\* ScanFlat with a fault: the test "record not in recs" is left out
RECURSIVE ScanFlatNoDedupe(_, _, _)
ScanFlatNoDedupe(fl, i, recs) ==
    IF i > Len(fl) THEN recs
    ELSE LET k == fl[i][1]
             v == fl[i][2]
             record == RecordUnder(fl, ParentOf(k))
         IN IF IsScalar(v) /\ IsSizeKey(k) /\ record # <<>>
            THEN ScanFlatNoDedupe(fl, i + 1, Append(recs, record))
            ELSE ScanFlatNoDedupe(fl, i + 1, recs)

\* the inner loop, over the items of one flattened block
RECURSIVE ScanFlat(_, _, _)
ScanFlat(fl, i, recs) ==
    IF i > Len(fl) THEN recs
    ELSE LET k == fl[i][1]
             v == fl[i][2]
             record == RecordUnder(fl, ParentOf(k))
         IN IF IsScalar(v) /\ IsSizeKey(k) /\ record # <<>> /\ ~InRecs(recs, record)
            THEN ScanFlat(fl, i + 1, Append(recs, record))
            ELSE ScanFlat(fl, i + 1, recs)

\* the outer loop, over the blocks
RECURSIVE ScanBlocks(_, _)
ScanBlocks(bs, recs) ==
    IF bs = <<>> THEN recs
    ELSE ScanBlocks(Tail(bs), ScanFlat(_flatten(bs[1], ""), 1, recs))

_find_size_records(bs) == ScanBlocks(bs, <<>>)

----------------------------------------------------------------------------
(* Regular expressions of the source, matched as re.search matches them.   *)

IsWordAt(s, i) == i >= 1 /\ i <= Len(s) /\ Char(s, i) \in WordChars

\* \b at position p (between s[p-1] and s[p])
Boundary(s, p) == IsWordAt(s, p - 1) # IsWordAt(s, p)

\* the positions a \s* starting at i can end at
WsRun(s, i) == {j \in i..(Len(s) + 1) : \A m \in i..(j - 1) : Char(s, m) \in WhiteSpace}

\* the positions after a match, starting at i, of literal pieces joined by \s*
RECURSIVE PiecesEnd(_, _, _)
PiecesEnd(s, i, pieces) ==
    IF ~MatchAt(s, i, pieces[1]) THEN {}
    ELSE IF Len(pieces) = 1 THEN {i + Len(pieces[1])}
    ELSE UNION {PiecesEnd(s, j, Tail(pieces)) : j \in WsRun(s, i + Len(pieces[1]))}

\* re.IGNORECASE: the subject and the literals of the pattern are compared
\* lower-cased.  The operators below take a subject that is already lower-cased;
\* the literals of the patterns are written in lower case.

\* an alternation of such piece sequences matches at i
AltAt(ls, i, alts) == \E a \in 1..Len(alts) : PiecesEnd(ls, i, alts[a]) # {}

\* re.search(alternation, s, re.IGNORECASE)
SearchAlt(s, alts) == LET ls == lower(s) IN \E i \in 1..(Len(ls) + 1) : AltAt(ls, i, alts)

\* the positions after a match of \b<lt>\b starting at i
WordEnd(ls, i, lt) ==
    IF MatchAt(ls, i, lt) /\ Boundary(ls, i) /\ Boundary(ls, i + Len(lt))
    THEN {i + Len(lt)} ELSE {}

\* re.search(rf"\b{re.escape(t)}\b", sv, re.IGNORECASE)
SearchWord(sv, t) ==
    LET ls == lower(sv)
        lt == lower(t)
    IN \E i \in 1..(Len(ls) + 1) : WordEnd(ls, i, lt) # {}

\* r"in\s*stock|available|ok|true"
TruthyPattern == << <<"in", "stock">>, <<"available">>, <<"ok">>, <<"true">> >>

\* r"out\s*of\s*stock|sold\s*out|unavailable|false"
FalsyPattern == << <<"out", "of", "stock">>, <<"sold", "out">>, <<"unavailable">>, <<"false">> >>

TRUTHY == {"true", "in stock", "instock", "available", "yes", "in_stock", "in-stock",
           "availableforpurchase", "ok"}

FALSY == {"false", "out of stock", "outofstock", "unavailable", "no", "soldout", "sold out",
          "notavailable"}

----------------------------------------------------------------------------
(* _interpret_availability                                                 *)

PyTrue == "True"
PyFalse == "False"
PyNone == "None"

NoDecision == [kind |-> "none"]                         \* return None
Tuple(ok, detail) == [kind |-> "tuple", ok |-> ok, detail |-> detail]
Raise(exc) == [kind |-> "raise", exc |-> exc]

SizeLikeTokens == <<"size", "label", "variant", "name">>
AvailLikeTokens == <<"avail", "in_stock", "instock", "stock", "isavailable", "inventory",
                     "availabilitystatus", "status">>
QtyLikeTokens == <<"qty", "quantity">>

\* {k.lower(): str(v).strip() for k, v in rec.items() if isinstance(v, (str, int, float, bool))}
RECURSIVE FieldsOf(_, _)
FieldsOf(rec, out) ==
    IF rec = <<>> THEN out
    ELSE FieldsOf(Tail(rec),
                  IF IsScalar(rec[1][2])
                  THEN DictSet(out, lower(rec[1][1]), strip(str(rec[1][2])))
                  ELSE out)

\* [v for k, v in fields.items() if any(tok in k for tok in toks)]
RECURSIVE ValuesLike(_, _)
ValuesLike(fields, toks) ==
    IF fields = <<>> THEN <<>>
    ELSE (IF AnyTokIn(toks, fields[1][1]) THEN <<fields[1][2]>> ELSE <<>>)
         \o ValuesLike(Tail(fields), toks)

\* t == sv.lower() or re.search(rf"\b{re.escape(t)}\b", sv, re.IGNORECASE)
SizeValueMatches(sv, t) == t = lower(sv) \/ SearchWord(sv, t)

size_match(fields, t) ==
    LET size_values == ValuesLike(fields, SizeLikeTokens)
    IN \E i \in 1..Len(size_values) : SizeValueMatches(size_values[i], t)

\* the loop over avail_values: the first value with a truthy or falsy reading decides
RECURSIVE AvailLoop(_)
AvailLoop(avs) ==
    IF avs = <<>> THEN NoDecision
    ELSE LET av == avs[1]
             lav == lower(av)
         IN IF lav \in TRUTHY \/ SearchAlt(lav, TruthyPattern) THEN Tuple(PyTrue, av)
            ELSE IF lav \in FALSY \/ SearchAlt(lav, FalsyPattern) THEN Tuple(PyFalse, av)
            ELSE AvailLoop(Tail(avs))

\* the loop over qty_values, followed by the loop over avail_values
RECURSIVE QtyLoop(_, _)
QtyLoop(qs, avs) ==
    IF qs = <<>> THEN AvailLoop(avs)
    ELSE LET q == qs[1]
         IN IF ~isdigit(q) THEN QtyLoop(Tail(qs), avs)
            ELSE IF IntRaises(q) THEN Raise("ValueError")
            ELSE IF int(q) > 0 THEN Tuple(PyTrue, "quantity=" \o q)
            ELSE QtyLoop(Tail(qs), avs)

\* the body of the loop over records, for one record
RecordDecision(rec, t) ==
    LET fields == FieldsOf(rec, <<>>)
    IN IF ~size_match(fields, t) THEN NoDecision
       ELSE QtyLoop(ValuesLike(fields, QtyLikeTokens), ValuesLike(fields, AvailLikeTokens))

RECURSIVE RecordsLoop(_, _)
RecordsLoop(recs, t) ==
    IF recs = <<>> THEN NoDecision
    ELSE LET d == RecordDecision(recs[1], t)
         IN IF d = NoDecision THEN RecordsLoop(Tail(recs), t) ELSE d

_interpret_availability(recs, target) == RecordsLoop(recs, lower(strip(target)))

----------------------------------------------------------------------------
(* _fallback_text                                                          *)

\* U+2013 EN DASH and U+2014 EM DASH are written "~" and "=" in this model's strings
EnDash == "~"
EmDash == "="

Separators == {"-", EnDash, EmDash, ":"}

OutPhrases == << <<"out of stock">>, <<"sold out">>, <<"unavailable">> >>
InPhrases == << <<"add to bag">>, <<"add to cart">>, <<"in stock">>, <<"available">> >>
BagPhrases == << <<"add to bag">>, <<"add to cart">> >>

\* rf"\b{re.escape(t)}\b\s*[-–—:]?\s*(out of stock|sold out|unavailable)"
SizeThenOut(s, t) ==
    LET text == lower(s)
        lt == lower(t)
    IN \E i \in 1..(Len(text) + 1) : \E e \in WordEnd(text, i, lt) :
        \E j \in WsRun(text, e) :
            \E k \in {j} \cup (IF j <= Len(text) /\ Char(text, j) \in Separators THEN {j + 1} ELSE {}) :
                \E l \in WsRun(text, k) : AltAt(text, l, OutPhrases)

\* rf"\b{re.escape(t)}\b.*(add to bag|add to cart|in stock|available)"; "." is not a newline
SizeThenIn(s, t) ==
    LET text == lower(s)
        lt == lower(t)
    IN \E i \in 1..(Len(text) + 1) : \E e \in WordEnd(text, i, lt) :
        \E j \in e..(Len(text) + 1) :
            /\ AltAt(text, j, InPhrases)
            /\ \A m \in e..(j - 1) : Char(text, m) # "\n"

\* _fallback_text with a fault: the two generic checks are in the other order
FallbackTextSwapped(pagetext, target) ==
    LET t == lower(strip(target))
        text == lower(pagetext)
    IN IF SizeThenOut(text, t) THEN Tuple(PyFalse, "text: out of stock")
       ELSE IF SizeThenIn(text, t) THEN Tuple(PyTrue, "text: likely in stock")
       ELSE IF SearchAlt(text, OutPhrases) THEN Tuple(PyFalse, "text: global out of stock")
       ELSE IF SearchAlt(text, BagPhrases) THEN Tuple(PyTrue, "text: add to bag found")
       ELSE NoDecision

_fallback_text(pagetext, target) ==
    LET t == lower(strip(target))
        text == lower(pagetext)
    IN IF SizeThenOut(text, t) THEN Tuple(PyFalse, "text: out of stock")
       ELSE IF SizeThenIn(text, t) THEN Tuple(PyTrue, "text: likely in stock")
       ELSE IF SearchAlt(text, BagPhrases) THEN Tuple(PyTrue, "text: add to bag found")
       ELSE IF SearchAlt(text, OutPhrases) THEN Tuple(PyFalse, "text: global out of stock")
       ELSE NoDecision

----------------------------------------------------------------------------
(* json.loads, for the JSON texts of the model: objects, arrays, strings   *)
(* without escape sequences, integers, non-negative one-decimal floats,    *)
(* true, false, null, and whitespace between tokens.  Any other text is    *)
(* reported as a decode error.                                             *)

Quote == "\""

Fail == [ok |-> FALSE]
Parsed(v, i) == [ok |-> TRUE, v |-> v, i |-> i]

\* the position after the whitespace that starts at i
RECURSIVE SkipWs(_, _)
SkipWs(s, i) == IF i <= Len(s) /\ Char(s, i) \in WhiteSpace THEN SkipWs(s, i + 1) ELSE i

\* the position after the digits that start at i
RECURSIVE SkipDigits(_, _)
SkipDigits(s, i) == IF i <= Len(s) /\ Char(s, i) \in DigitChars THEN SkipDigits(s, i + 1) ELSE i

\* a string whose opening quote is at i
ParseString(s, i) ==
    LET closing == {j \in (i + 1)..Len(s) : Char(s, j) = Quote}
    IN IF closing = {} THEN Fail
       ELSE LET j == CHOOSE c \in closing : \A d \in closing : c <= d
                body == SubSeq(s, i + 1, j - 1)
            IN IF \E m \in 1..Len(body) : Char(body, m) \in {"\\", "\n", "\t"} THEN Fail
               ELSE Parsed(body, j + 1)

\* a number that starts at i: -?(0|[1-9][0-9]*)(\.[0-9]+)?
ParseNumber(s, i) ==
    LET neg == Char(s, i) = "-"
        b == IF neg THEN i + 1 ELSE i
        e == IF MatchAt(s, b, "0") THEN b + 1 ELSE SkipDigits(s, b)
        f == IF MatchAt(s, e, ".") THEN SkipDigits(s, e + 1) ELSE e
    IN IF e = b THEN Fail
       ELSE IF f = e \/ f = e + 1
            THEN Parsed(Num(IF neg THEN 0 - int(SubSeq(s, b, e - 1)) ELSE int(SubSeq(s, b, e - 1))), e)
       ELSE IF f = e + 2 /\ ~neg
            THEN Parsed(Flt(int(SubSeq(s, b, e - 1)), int(SubSeq(s, e + 1, e + 1))), f)
       ELSE Fail

RECURSIVE ParseValue(_, _)
RECURSIVE ParseMembers(_, _, _)
RECURSIVE ParseElems(_, _, _)

\* the members of an object, i at the opening quote of the next key
ParseMembers(s, i, items) ==
    IF ~MatchAt(s, i, Quote) THEN Fail
    ELSE LET k == ParseString(s, i)
         IN IF ~k.ok THEN Fail
            ELSE LET c == SkipWs(s, k.i)
                 IN IF ~MatchAt(s, c, ":") THEN Fail
                    ELSE LET v == ParseValue(s, SkipWs(s, c + 1))
                         IN IF ~v.ok THEN Fail
                            ELSE LET n == SkipWs(s, v.i)
                                     more == DictSet(items, k.v, v.v)
                                 IN IF MatchAt(s, n, "}") THEN Parsed(Dict(more), n + 1)
                                    ELSE IF MatchAt(s, n, ",")
                                    THEN ParseMembers(s, SkipWs(s, n + 1), more)
                                    ELSE Fail

\* the elements of an array, i at the start of the next element
ParseElems(s, i, elems) ==
    LET v == ParseValue(s, i)
    IN IF ~v.ok THEN Fail
       ELSE LET n == SkipWs(s, v.i)
                more == Append(elems, v.v)
            IN IF MatchAt(s, n, "]") THEN Parsed(List(more), n + 1)
               ELSE IF MatchAt(s, n, ",") THEN ParseElems(s, SkipWs(s, n + 1), more)
               ELSE Fail

ParseValue(s, i) ==
    IF MatchAt(s, i, Quote)
    THEN LET r == ParseString(s, i) IN IF r.ok THEN Parsed(Str(r.v), r.i) ELSE Fail
    ELSE IF MatchAt(s, i, "{")
    THEN LET n == SkipWs(s, i + 1)
         IN IF MatchAt(s, n, "}") THEN Parsed(Dict(<<>>), n + 1) ELSE ParseMembers(s, n, <<>>)
    ELSE IF MatchAt(s, i, "[")
    THEN LET n == SkipWs(s, i + 1)
         IN IF MatchAt(s, n, "]") THEN Parsed(List(<<>>), n + 1) ELSE ParseElems(s, n, <<>>)
    ELSE IF MatchAt(s, i, "true") THEN Parsed(Bool(TRUE), i + 4)
    ELSE IF MatchAt(s, i, "false") THEN Parsed(Bool(FALSE), i + 5)
    ELSE IF MatchAt(s, i, "null") THEN Parsed(Null, i + 4)
    ELSE IF i <= Len(s) /\ Char(s, i) \in DigitChars \cup {"-"} THEN ParseNumber(s, i)
    ELSE Fail

\* json.loads(txt): [ok |-> FALSE] stands for the JSONDecodeError it raises
json_loads(txt) ==
    LET r == ParseValue(txt, SkipWs(txt, 1))
    IN IF r.ok /\ SkipWs(txt, r.i) = Len(txt) + 1 THEN r ELSE Fail

----------------------------------------------------------------------------
(* The parsed page (the soup): its <script> tags in document order, each   *)
(* with its type attribute and its text, and the page's rendered text.     *)

Script(type, txt) == [type |-> type, txt |-> txt]
Page(scripts, text) == [empty |-> FALSE, scripts |-> scripts, text |-> text]
NoPage == [empty |-> TRUE, scripts |-> <<>>, text |-> ""]     \* fetch returned ""

\* [d for d in data if isinstance(d, dict)]
DictsOf(elems) == SelectSeq(elems, LAMBDA d : d.t = "dict")

\* the body of the loop of _json_blocks_from_ld for one tag
LdStep(bl, tag) ==
    LET data == json_loads(strip(tag.txt))
    IN IF ~data.ok THEN bl
       ELSE IF data.v.t = "list" THEN bl \o DictsOf(data.v.elems)
       ELSE IF data.v.t = "dict" THEN Append(bl, data.v)
       ELSE bl

\* LdLoop with a fault: the try encloses the loop, so the first block that fails
\* to decode ends the extraction
RECURSIVE LdLoopAbort(_, _)
LdLoopAbort(tags, bl) ==
    IF tags = <<>> THEN bl
    ELSE IF ~json_loads(strip(tags[1].txt)).ok THEN bl
    ELSE LdLoopAbort(Tail(tags), LdStep(bl, tags[1]))

\* the loop over the ld+json script tags
RECURSIVE LdLoop(_, _)
LdLoop(tags, bl) == IF tags = <<>> THEN bl ELSE LdLoop(Tail(tags), LdStep(bl, tags[1]))

_json_blocks_from_ld(soup) ==
    LdLoop(SelectSeq(soup.scripts, LAMBDA tag : tag.type = "application/ld+json"), <<>>)

----------------------------------------------------------------------------
(* _json_blocks_from_inline_scripts                                        *)

Keywords == <<"availability", "instock", "availabilitystatus", "offers", "variants", "sku",
              "size", "inventory">>

\* re.search(r"(availability|inStock|...|inventory)", txt, re.IGNORECASE)
HasKeyword(txt) == AnyTokIn(Keywords, lower(txt))

\* the braces of s[i..j]: opening ones minus closing ones
Depth(s, i, j) ==
    Cardinality({m \in i..j : Char(s, m) = "{"}) - Cardinality({m \in i..j : Char(s, m) = "}"})

\* the position of the "}" that balances the "{" at i, or 0 if there is none
Balance(s, i) ==
    LET closing == {j \in (i + 1)..Len(s) : Char(s, j) = "}" /\ Depth(s, i, j) = 0}
    IN IF closing = {} THEN 0 ELSE CHOOSE j \in closing : \A m \in closing : j <= m

\* pattern.finditer(txt) from position i on: the balanced {...} regions, leftmost
\* first, not overlapping; a "{" that nothing balances is passed over
RECURSIVE Regions(_, _)
Regions(s, i) ==
    LET opening == {j \in i..Len(s) : Char(s, j) = "{"}
    IN IF opening = {} THEN <<>>
       ELSE LET o == CHOOSE j \in opening : \A m \in opening : j <= m
                c == Balance(s, o)
            IN IF c # 0 THEN <<SubSeq(s, o, c)>> \o Regions(s, c + 1) ELSE Regions(s, o + 1)

\* the body of the loop over the regions of one script
RegionStep(bl, js) ==
    IF ~HasKeyword(js) THEN bl
    ELSE LET strict == json_loads(js)
             coerced == json_loads(replace(js, "'", Quote))
         IN IF strict.ok THEN Append(bl, strict.v)
            ELSE IF coerced.ok THEN Append(bl, coerced.v)
            ELSE bl

RECURSIVE RegionLoop(_, _)
RegionLoop(rs, bl) == IF rs = <<>> THEN bl ELSE RegionLoop(Tail(rs), RegionStep(bl, rs[1]))

\* the body of the loop over the script tags
InlineStep(bl, tag) ==
    IF tag.txt = "" \/ ~Contains(tag.txt, "{") \/ ~HasKeyword(tag.txt) THEN bl
    ELSE RegionLoop(Regions(tag.txt, 1), bl)

RECURSIVE InlineLoop(_, _)
InlineLoop(tags, bl) == IF tags = <<>> THEN bl ELSE InlineLoop(Tail(tags), InlineStep(bl, tags[1]))

_json_blocks_from_inline_scripts(soup, regex_available) ==
    IF ~regex_available THEN <<>> ELSE InlineLoop(soup.scripts, <<>>)

----------------------------------------------------------------------------
(* check_once, one action per statement group; the same actions run the    *)
(* functions it calls when a specification starts at their call.           *)

Unset == [kind |-> "unset"]

\* lines 181-185: html = fetch(url); if not html: return None, "fetch failed"
CheckOnceFetch ==
    /\ pc = "fetch"
    /\ IF html.empty
       THEN /\ result' = Tuple(PyNone, "fetch failed")
            /\ pc' = "done"
       ELSE /\ result' = result
            /\ pc' = "blocks"
    /\ UNCHANGED <<html, target_size, has_regex, blocks, flat, records, res, res2>>

\* line 188: blocks = _json_blocks_from_ld(soup) + _json_blocks_from_inline_scripts(soup)
CheckOnceBlocks ==
    /\ pc = "blocks"
    /\ blocks' = _json_blocks_from_ld(html) \o _json_blocks_from_inline_scripts(html, has_regex)
    /\ pc' = IF blocks' # <<>> THEN "records" ELSE "fallback"
    /\ UNCHANGED <<html, target_size, has_regex, flat, records, res, res2, result>>

\* line 190: records = _find_size_records(blocks)
CheckOnceRecords ==
    /\ pc = "records"
    /\ records' = _find_size_records(blocks)
    /\ pc' = "interpret"
    /\ UNCHANGED <<html, target_size, has_regex, blocks, flat, res, res2, result>>

\* lines 191-193: res = _interpret_availability(records, target_size);
\* a tuple is returned, an exception leaves check_once, None falls through
CheckOnceInterpret ==
    /\ pc = "interpret"
    /\ res' = _interpret_availability(records, target_size)
    /\ IF res'.kind = "tuple" THEN result' = res' /\ pc' = "done"
       ELSE IF res'.kind = "raise" THEN result' = res' /\ pc' = "raised"
       ELSE result' = result /\ pc' = "fallback"
    /\ UNCHANGED <<html, target_size, has_regex, blocks, flat, records, res2>>

\* lines 196-205: res2 = _fallback_text(soup, target_size); return res2 unless it is
\* None, and then return None, "could not determine"
CheckOnceFallback ==
    /\ pc = "fallback"
    /\ res2' = _fallback_text(html.text, target_size)
    /\ result' = IF res2' # NoDecision THEN res2' ELSE Tuple(PyNone, "could not determine")
    /\ pc' = "done"
    /\ UNCHANGED <<html, target_size, has_regex, blocks, flat, records, res>>

\* a call of _flatten(b) on the block blocks[1]
Flatten ==
    /\ pc = "flatten"
    /\ flat' = _flatten(blocks[1], "")
    /\ pc' = "done"
    /\ UNCHANGED <<html, target_size, has_regex, blocks, records, res, res2, result>>

\* a call of _json_blocks_from_ld(soup)
JsonBlocksFromLd ==
    /\ pc = "ld"
    /\ blocks' = _json_blocks_from_ld(html)
    /\ pc' = "done"
    /\ UNCHANGED <<html, target_size, has_regex, flat, records, res, res2, result>>

----------------------------------------------------------------------------
(* Inputs.                                                                 *)

\* the sequences over S of length at most n
SeqsUpTo(S, n) == UNION {[1..m -> S] : m \in 0..n}

\* the dicts with at most n items, keys from K, values from V
DictsUpTo(K, V, n) ==
    {d \in SeqsUpTo(K \X V, n) : \A i, j \in 1..Len(d) : i # j => d[i][1] # d[j][1]}

RECURSIVE Concat(_)
Concat(ss) == IF ss = <<>> THEN "" ELSE ss[1] \o Concat(Tail(ss))

\* s.upper()
RECURSIVE upper(_)
upper(s) ==
    IF s = "" THEN ""
    ELSE (IF Head(s) \in LowerChars THEN UpperOf[Head(s)] ELSE Head(s)) \o upper(Tail(s))

\* s.capitalize() for a lower-case s
capitalize(s) == IF s = "" THEN "" ELSE upper(Head(s)) \o Tail(s)

----------------------------------------------------------------------------
(* _flatten on its own: RawBlocks with keys that are plain, empty, or      *)
(* contain "." or "[0]".                                                   *)

FlattenKeys == {"a", "b", "a.b", "a[0]", ""}

FlattenInner ==
    {Num(1), Str("x"), Null, Dict(<<>>), List(<<>>), List(<<Num(1)>>), List(<<Num(1), Str("x")>>)}
        \cup {Dict(<<<<k, Num(2)>>>>) : k \in FlattenKeys}

FlattenBlocks == {Dict(d) : d \in DictsUpTo(FlattenKeys, FlattenInner, MaxKeys)}

InitFlatten ==
    /\ pc = "flatten"
    /\ blocks \in {<<b>> : b \in FlattenBlocks}
    /\ html = NoPage
    /\ target_size = ""
    /\ has_regex = FALSE
    /\ flat = <<>>
    /\ records = <<>>
    /\ res = Unset
    /\ res2 = Unset
    /\ result = Unset

SpecFlatten == InitFlatten /\ [][Flatten]_vars

\* the scalar leaves of a block (every value that is no mapping and no sequence)
RECURSIVE NumLeaves(_)
RECURSIVE SumLeaves(_)
SumLeaves(vs) == IF vs = <<>> THEN 0 ELSE NumLeaves(vs[1]) + SumLeaves(Tail(vs))
NumLeaves(v) ==
    CASE v.t = "dict" -> SumLeaves([i \in 1..Len(v.items) |-> v.items[i][2]])
      [] v.t = "list" -> SumLeaves(v.elems)
      [] OTHER -> 1

\* keys made of letters only: no ".", no "[", not empty
PlainKey(k) == k # "" /\ \A i \in 1..Len(k) : Char(k, i) \in LowerChars

RECURSIVE PlainKeys(_)
PlainKeys(v) ==
    CASE v.t = "dict" -> \A i \in 1..Len(v.items) : PlainKey(v.items[i][1]) /\ PlainKeys(v.items[i][2])
      [] v.t = "list" -> \A i \in 1..Len(v.elems) : PlainKeys(v.elems[i])
      [] OTHER -> TRUE

\* C6: flattening is path-unique: the FlatRecord of a block has exactly one entry
\* per scalar leaf of the block, so no leaf value is overwritten by another.
C6_PathUnique == pc = "done" => Len(flat) = NumLeaves(blocks[1])

\* C6 restricted to blocks whose keys are plain: there the paths are unique.
C6_PathUniquePlainKeys ==
    (pc = "done" /\ PlainKeys(blocks[1])) => Len(flat) = NumLeaves(blocks[1])

----------------------------------------------------------------------------
(* _find_size_records on its own.                                          *)

RecBlocks ==
    {Dict(<<<<top, Dict(<<<<k, leaf>>>>)>>>>) :
        top \in {"v", "variants"}, k \in {"size", "id"},
        leaf \in {Str("L"), Num(1), Bool(TRUE), Null}}
    \cup
    { Dict(<<<<"size", Str("L")>>>>),
      Dict(<<<<"a.name", Str("x")>>>>),
      Dict(<<<<"offers", List(<<Dict(<< <<"size", Str("L")>>, <<"sku", Str("1")>>,
                                        <<"availability", Str("InStock")>> >>)>>)>>>>),
      Dict(<<<<"v", Dict(<< <<"size", Str("L")>>, <<"id", Num(1)>> >>)>>>>),
      Dict(<<<<"Label", Dict(<<<<"x", Dict(<<<<"id", Num(1)>>>>)>>>>)>>>>),
      Dict(<< <<"v", Dict(<<<<"size", Str("L")>>>>)>>, <<"vx", Dict(<<<<"id", Num(1)>>>>)>> >>) }

InitRecords ==
    /\ pc = "records"
    /\ blocks \in SeqsUpTo(RecBlocks, MaxBlocks)
    /\ html = NoPage
    /\ target_size = ""
    /\ has_regex = FALSE
    /\ flat = <<>>
    /\ records = <<>>
    /\ res = Unset
    /\ res2 = Unset
    /\ result = Unset

SpecRecords == InitRecords /\ [][CheckOnceRecords]_vars

HasSizeToken(s) == \E tok \in {"size", "variant", "sku", "label", "name"} : Contains(s, tok)

\* the text after the last "." of a path (the whole path when it has none)
FinalSegment(k) ==
    LET dots == {i \in 1..Len(k) : Char(k, i) = "."}
    IN IF dots = {} THEN k
       ELSE SubSeq(k, (CHOOSE i \in dots : \A j \in dots : j <= i) + 1, Len(k))

\* the path with its final ".segment" removed
PrefixOf(k) == SubSeq(k, 1, Len(k) - Len(FinalSegment(k)) - 1)

\* the entries of a flattened block whose path starts with prefix
Cluster(fl, prefix) == SelectSeq(fl, LAMBDA kv : MatchAt(kv[1], 1, prefix))

\* record r is the cluster of a path of some block that has a prefix and passes Test
CreatedFromPath(r, Test(_)) ==
    \E b \in 1..Len(blocks) :
        LET fl == _flatten(blocks[b], "")
        IN \E i \in 1..Len(fl) :
            /\ Test(fl[i][1])
            /\ Contains(fl[i][1], ".")
            /\ PrefixOf(fl[i][1]) # ""
            /\ r = Cluster(fl, PrefixOf(fl[i][1]))

FinalSegmentHasToken(k) == HasSizeToken(lower(FinalSegment(k)))
PathHasToken(k) == HasSizeToken(lower(k))

NonEmptyAndOnce ==
    /\ \A i \in 1..Len(records) : records[i] # <<>>
    /\ \A i, j \in 1..Len(records) : i # j => ~DictEq(records[i], records[j])

\* C8 as stated: a candidate record is created from a path only when the path's
\* final segment, lower-cased, contains one of the tokens size, variant, sku,
\* label, name; root-level matches are skipped; every record is non-empty and
\* appears at most once.
C8_FinalSegmentOnly ==
    pc = "interpret" =>
        /\ \A i \in 1..Len(records) : CreatedFromPath(records[i], FinalSegmentHasToken)
        /\ NonEmptyAndOnce

\* C8 amended: a candidate record is created from a path only when the whole
\* path, lower-cased, contains one of the tokens (in any segment); a path with
\* no "." (no prefix) is skipped; every record is non-empty and appears at most
\* once.
C8_WholePathOnly ==
    pc = "interpret" =>
        /\ \A i \in 1..Len(records) : CreatedFromPath(records[i], PathHasToken)
        /\ NonEmptyAndOnce

\* a record was created from a path whose token is in an ancestor segment only,
\* next to a block whose only match is at the root and created nothing
C8_Witness ==
    /\ pc = "interpret"
    /\ \E i \in 1..Len(records) : ~CreatedFromPath(records[i], FinalSegmentHasToken)
    /\ \E b \in 1..Len(blocks) : blocks[b] = Dict(<<<<"size", Str("L")>>>>)
    /\ Len(records) = 1

----------------------------------------------------------------------------
(* _interpret_availability on its own.  A candidate record is a cluster    *)
(* under one prefix, here "v[0]".                                          *)

SizeField(v) == <<"v[0].size", v>>
QtyField(v) == <<"v[0].qty", v>>
QuantityField(v) == <<"v[0].quantity", v>>
AvailField(v) == <<"v[0].availability", v>>

AvailStrings ==
    UNION {{tok, upper(tok), capitalize(tok)} : tok \in TRUTHY \cup FALSY}
        \cup {"Currently in stock", "Sold  Out", "maybe", "InStock", "OutOfStock", " In Stock "}

AvailValues == {Str(a) : a \in AvailStrings} \cup {Bool(TRUE), Bool(FALSE)}

QtyValues ==
    {Str("5"), Num(5), Num(0), Str("0"), Num(0 - 1), Str("-5"), Flt(2, 5), Str("2.5"),
     Str(SuperscriptTwo), Str("007"), Str(" 3 ")}

SizeStrings ==
    {"S", "s", "Size: S", "Small", "XS", "XL", "L", "size_S", "S-M", "S (6-7)",
     "Size: S (6-7)", "S (6-7)x"}

Targets == {"S", " s ", "L", "XL", "S (6-7)"}

\* one record: a size and one availability value, with or without a zero quantity
TokenRecords ==
    {<<SizeField(Str(sz)), AvailField(av)>> : sz \in {"S", "Small"}, av \in AvailValues}
        \cup {<<SizeField(Str("S")), QtyField(Num(0)), AvailField(av)>> : av \in AvailValues}

\* one record: a size, one or two quantities, with or without an availability value
SomeAvail == {<<>>, <<AvailField(Str("out of stock"))>>, <<AvailField(Str("in stock"))>>}

QuantityRecords ==
    {<<SizeField(Str("S")), QtyField(q)>> \o a : q \in QtyValues, a \in SomeAvail}
        \cup {<<SizeField(Str("S")), QtyField(q1), QuantityField(q2)>> \o a :
                q1 \in QtyValues, q2 \in QtyValues, a \in SomeAvail}

\* one record: a size value and an availability value
SizeRecords == {<<SizeField(Str(sz)), AvailField(Str("in stock"))>> : sz \in SizeStrings}

\* records for sequences: a size and at most one signal
Signals ==
    {<<>>, <<QtyField(Str("5"))>>, <<QtyField(Str(SuperscriptTwo))>>,
     <<AvailField(Str("in stock"))>>, <<AvailField(Str("sold out"))>>, <<AvailField(Str("maybe"))>>}

ScanRecords == {<<SizeField(Str(sz))>> \o sg : sz \in {"S", "Size: S", "XS"}, sg \in Signals}

RecordInputs ==
    {<<r>> : r \in TokenRecords \cup QuantityRecords \cup SizeRecords}
        \cup SeqsUpTo(ScanRecords, MaxRecords)

InitInterpret ==
    /\ pc = "interpret"
    /\ records \in RecordInputs
    /\ target_size \in Targets
    /\ html = NoPage
    /\ has_regex = FALSE
    /\ blocks = <<>>
    /\ flat = <<>>
    /\ res = Unset
    /\ res2 = Unset
    /\ result = Unset

SpecInterpret == InitInterpret /\ [][CheckOnceInterpret]_vars

\* _interpret_availability has been called and has returned or raised
Interpreted == pc \in {"done", "fallback", "raised"}

TargetLabel == lower(strip(target_size))

\* the values of a record whose key contains one of the tokens, as the record
\* holds them: stringified and trimmed
ValuesUnder(rec, toks) == ValuesLike(FieldsOf(rec, <<>>), toks)

\* a string of decimal digits with a numeric value above 0
PositiveDigits(q) ==
    /\ q # ""
    /\ \A i \in 1..Len(q) : Char(q, i) \in DigitChars
    /\ \E i \in 1..Len(q) : Char(q, i) # "0"

HasPositiveQty(rec) ==
    LET qs == ValuesUnder(rec, QtyLikeTokens) IN \E i \in 1..Len(qs) : PositiveDigits(qs[i])

\* the target occurs in sv with no word character right before or right after it
WholeWordIn(sv, t) ==
    \E i \in 1..(Len(sv) + 1) :
        /\ MatchAt(lower(sv), i, t)
        /\ ~IsWordAt(sv, i - 1)
        /\ ~IsWordAt(sv, i + Len(t))

MatchesTarget(rec, t) ==
    LET svs == ValuesUnder(rec, SizeLikeTokens)
    IN \E i \in 1..Len(svs) : lower(svs[i]) = t \/ WholeWordIn(svs[i], t)

\* the record passes the size test of the code (C5 is about what that test accepts)
SizeMatched(rec, t) == size_match(FieldsOf(rec, <<>>), t)

\* C3: for a size-matched record with no positive quantity, an availability value
\* that, lower-cased, is in the falsy token set gives OutOfStock, and one in the
\* truthy token set gives InStock, each with the value as justification.  Stated
\* for one record with one availability value and no quantity that int() rejects.
C3_TokenSets ==
    (Interpreted /\ Len(records) = 1) =>
        LET rec == records[1]
            avs == ValuesUnder(rec, AvailLikeTokens)
            qs == ValuesUnder(rec, QtyLikeTokens)
        IN (/\ SizeMatched(rec, TargetLabel)
            /\ ~HasPositiveQty(rec)
            /\ \A i \in 1..Len(qs) : SuperscriptTwo \notin CharsOf(qs[i])
            /\ Len(avs) = 1) =>
               /\ lower(avs[1]) \in {"false", "out of stock", "outofstock", "unavailable", "no",
                                    "soldout", "sold out", "notavailable"}
                      => res = Tuple(PyFalse, avs[1])
               /\ lower(avs[1]) \in {"true", "in stock", "instock", "available", "yes", "in_stock",
                                    "in-stock", "availableforpurchase", "ok"}
                      => res = Tuple(PyTrue, avs[1])

\* a record that matches the target and holds a positive quantity or an availability
\* value with a truthy or falsy reading
YieldsSignal(rec, t) ==
    LET avs == ValuesUnder(rec, AvailLikeTokens)
    IN /\ SizeMatched(rec, t)
       /\ \/ HasPositiveQty(rec)
          \/ \E i \in 1..Len(avs) :
                \/ lower(avs[i]) \in TRUTHY \cup FALSY
                \/ SearchAlt(avs[i], TruthyPattern)
                \/ SearchAlt(avs[i], FalsyPattern)

FirstSignal(t) == {j \in 1..Len(records) :
                     YieldsSignal(records[j], t) /\ \A m \in 1..(j - 1) : ~YieldsSignal(records[m], t)}

\* C4: when the first size-matched record that yields a signal holds a quantity
\* that is a string of digits above 0, the verdict is InStock with justification
\* "quantity=<value>", whatever its availability values say; a quantity of 0, a
\* negative number or a float never gives a quantity-based InStock.
C4_QuantityPrecedence ==
    Interpreted =>
        /\ \A j \in FirstSignal(TargetLabel) :
              HasPositiveQty(records[j]) =>
                  \E q \in {ValuesUnder(records[j], QtyLikeTokens)[i] :
                               i \in 1..Len(ValuesUnder(records[j], QtyLikeTokens))} :
                      PositiveDigits(q) /\ res = Tuple(PyTrue, "quantity=" \o q)
        /\ (res.kind = "tuple" /\ MatchAt(res.detail, 1, "quantity=")) =>
              PositiveDigits(SubSeq(res.detail, 10, Len(res.detail)))

\* C5: a record matches the target (trimmed, case-insensitive) iff some size-like
\* value equals it or contains it as a whole word; a record with no size match
\* never contributes a verdict.
C5_WordBoundary ==
    Interpreted =>
        /\ \A i \in 1..Len(records) :
              size_match(FieldsOf(records[i], <<>>), TargetLabel)
                  <=> MatchesTarget(records[i], TargetLabel)
        /\ (\A i \in 1..Len(records) : ~MatchesTarget(records[i], TargetLabel))
              => res = NoDecision

\* C9: the result is the decision of the earliest record that matches the target
\* and yields a usable signal; a matching record without one does not stop the
\* scan; "no decision" is returned only if no record has both.
C9_FirstMatchWins ==
    Interpreted =>
        /\ \A j \in FirstSignal(TargetLabel) : res = RecordDecision(records[j], TargetLabel)
        /\ res = NoDecision => FirstSignal(TargetLabel) = {}

----------------------------------------------------------------------------
(* _fallback_text on its own.  The rendered text is get_text(" ",          *)
(* strip=True): the page's text nodes, each trimmed, joined by one space.  *)

TextNodes ==
    {"Size Large", "Large -", "Sold Out", "Add to Bag", "unavailable", "In Stock", "XLarge",
     "Large\nnew"}

RECURSIVE Join(_)
Join(ss) == IF ss = <<>> THEN "" ELSE IF Len(ss) = 1 THEN ss[1] ELSE ss[1] \o " " \o Join(Tail(ss))

InitFallback ==
    /\ pc = "fallback"
    /\ html \in {Page(<<>>, Join(ns)) : ns \in SeqsUpTo(TextNodes, MaxFrags)}
    /\ target_size \in {"Large", " large "}
    /\ has_regex = FALSE
    /\ blocks = <<>>
    /\ flat = <<>>
    /\ records = <<>>
    /\ res = Unset
    /\ res2 = Unset
    /\ result = Unset

SpecFallback == InitFallback /\ [][CheckOnceFallback]_vars

\* the four checks of the text fallback, on the lower-cased text
Check1 == SizeThenOut(html.text, TargetLabel)
Check2 == SizeThenIn(html.text, TargetLabel)
Check3 == SearchAlt(html.text, BagPhrases)
Check4 == SearchAlt(html.text, OutPhrases)

----------------------------------------------------------------------------
(* _json_blocks_from_ld on its own.  Each sample is a script text with the *)
(* mappings json.loads yields from it, written out by hand.                *)

LdSamples ==
    << <<"{\"offers\":[{\"size\":\"Large\",\"availability\":\"InStock\"}]}",
         <<Dict(<<<<"offers", List(<<Dict(<< <<"size", Str("Large")>>,
                                             <<"availability", Str("InStock")>> >>)>>)>>>>)>> >>,
       <<" [{\"a\":1}, 5, {\"b\":[true,null]}] ",
         <<Dict(<<<<"a", Num(1)>>>>), Dict(<<<<"b", List(<<Bool(TRUE), Null>>)>>>>)>> >>,
       <<"{\"v\":{\"qty\":2.5,\"n\":-3}}",
         <<Dict(<<<<"v", Dict(<< <<"qty", Flt(2, 5)>>, <<"n", Num(0 - 3)>> >>)>>>>)>> >>,
       <<"{\"offers\":[", <<>> >>,
       <<"{\"a\":1,}", <<>> >>,
       <<"\"size\"", <<>> >> >>

LdType == "application/ld+json"

LdScripts ==
    {Script(LdType, LdSamples[i][1]) : i \in 1..Len(LdSamples)}
        \cup {Script("text/javascript", LdSamples[1][1])}

InitLd ==
    /\ pc = "ld"
    /\ html \in {Page(ss, "") : ss \in SeqsUpTo(LdScripts, MaxScripts)}
    /\ target_size = ""
    /\ has_regex = FALSE
    /\ blocks = <<>>
    /\ flat = <<>>
    /\ records = <<>>
    /\ res = Unset
    /\ res2 = Unset
    /\ result = Unset

SpecLd == InitLd /\ [][JsonBlocksFromLd]_vars

\* the mappings a script tag holds: those of its sample if it is a structured-data
\* script, none otherwise
MappingsOf(tag) ==
    IF tag.type = LdType
    THEN LdSamples[CHOOSE i \in 1..Len(LdSamples) : LdSamples[i][1] = tag.txt][2]
    ELSE <<>>

RECURSIVE AllMappings(_)
AllMappings(tags) == IF tags = <<>> THEN <<>> ELSE MappingsOf(tags[1]) \o AllMappings(Tail(tags))

\* C7: the result is exactly the mappings decoded from the valid structured-data
\* blocks, in document order; a malformed block is skipped and changes nothing
\* about the blocks before or after it.
C7_DecodeIsolation == pc = "done" => blocks = AllMappings(html.scripts)

\* three structured-data blocks, the middle one malformed, the other two extracted
C7_Witness ==
    /\ pc = "done"
    /\ Len(html.scripts) = 3
    /\ html.scripts[1] = Script(LdType, LdSamples[1][1])
    /\ html.scripts[2] = Script(LdType, LdSamples[4][1])
    /\ html.scripts[3] = Script(LdType, LdSamples[3][1])
    /\ Len(blocks) = 2

----------------------------------------------------------------------------
(* check_once, from the fetch on.                                          *)

PageScripts ==
    { Script(LdType, "{\"offers\":[{\"size\":\"Large\",\"availability\":\"InStock\"}]}"),
      Script(LdType, "{\"variants\":[{\"name\":\"Medium\",\"inventory_quantity\":0},{\"name\":\"Large\",\"inventory_quantity\":3}]}"),
      Script(LdType, "{\"offers\":["),
      Script(LdType, "{\"v\":{\"size\":\"Large\",\"qty\":\"^\"}}"),
      Script(LdType, "{\"v\":{\"size\":\"Large\"}}"),
      Script("text/javascript", "var p = {'sku':{'size':'Large','instock':'no'}};"),
      Script("text/javascript", "var x = {\"a\":1};") }

PageTexts == {"", "Size Large Sold Out", "Add to Bag", "Sold Out Add to Bag", "hello"}

Init ==
    /\ pc = "fetch"
    /\ html \in {NoPage} \cup {Page(ss, tx) : ss \in SeqsUpTo(PageScripts, MaxPageScripts),
                                               tx \in PageTexts}
    /\ target_size \in {"Large", "Medium", "XL"}
    /\ has_regex \in BOOLEAN
    /\ blocks = <<>>
    /\ flat = <<>>
    /\ records = <<>>
    /\ res = Unset
    /\ res2 = Unset
    /\ result = Unset

Next ==
    \/ CheckOnceFetch
    \/ CheckOnceBlocks
    \/ CheckOnceRecords
    \/ CheckOnceInterpret
    \/ CheckOnceFallback

Spec == Init /\ [][Next]_vars

\* check_once has returned or an exception has left it
Finished == pc \in {"done", "raised"}

\* C1: for non-empty markup, check_once returns the structured-path decision if
\* the interpreter produced one, and then the text fallback is never consulted;
\* otherwise the text-fallback decision if there is one; otherwise Unknown with
\* "could not determine"; Unknown is returned only when neither path decided.
C1_Orchestration ==
    (Finished /\ ~html.empty) =>
        LET fb == _fallback_text(html.text, target_size)
        IN /\ res.kind = "tuple" => (result = res /\ res2 = Unset)
           /\ res.kind # "tuple" =>
                 result = IF fb # NoDecision THEN fb ELSE Tuple(PyNone, "could not determine")
           /\ (result.kind = "tuple" /\ result.ok = PyNone) =>
                 (res.kind # "tuple" /\ fb = NoDecision)

\* C2: the core never raises past its boundary: whatever the markup and the
\* target, the pipeline finishes with a verdict InStock, OutOfStock or Unknown.
C2_NeverRaises ==
    Finished => (result.kind = "tuple" /\ result.ok \in {PyTrue, PyFalse, PyNone})
====
